---- MODULE Spec2Model ----
(***************************************************************************)
(* Model of webhooks/senders/base.py: the Senderable send pipeline          *)
(* (configuration lookup, payload formatting, signing, the retry loop and  *)
(* the outcome mapping).  Python values are tagged records [t, v]; dict    *)
(* objects live on a heap so that aliasing between the caller's mappings,  *)
(* post_attributes and the payload is visible.                             *)
(***************************************************************************)
EXTENDS Integers, Sequences, FiniteSets, TLC

VARIABLES
    dkwargs,            \* the default-config mapping shared by the senders
    kwargs,             \* per sender: the per-call keyword arguments
    hash_value,         \* per sender: self.hash_value
    attempts,           \* per sender: self.attempts (the schedule)
    wrapped,            \* per sender: the value the wrapped function returns
    heap,               \* dict objects by identity
    heap0,              \* the heap as it was at construction
    pc,                 \* per sender: position in _send
    cache,              \* per sender: the cached_property values
    attempt,            \* per sender: self.attempt
    error,              \* per sender: self.error
    response,           \* per sender: self.response
    response_content,   \* per sender: self.response_content
    payload,            \* per sender: local variable payload of _send
    sending_metadata,   \* per sender: local dict sending_metadata
    idx,                \* per sender: next value of the loop variable i
    wait,               \* per sender: loop variable wait
    result,             \* per sender: what send() gave back to its caller
    remote,             \* the outcomes the transport can produce in this run
    events              \* per sender: the calls send() made, in order

vars == <<dkwargs, kwargs, hash_value, attempts, wrapped, heap, heap0, pc,
          cache, attempt, error, response, response_content, payload,
          sending_metadata, idx, wait, result, remote, events>>

inputs == <<dkwargs, kwargs, hash_value, attempts, wrapped, heap0, remote>>

\* ------------------------------------------------------------------------
\* Bounds of the model
MaxLen == 3             \* longest attempts schedule
MaxWait == 1            \* largest wait value in a schedule
Senders == {1, 2}

\* ------------------------------------------------------------------------
\* Python values
NoneV == [t |-> "None", v |-> <<>>]
PyStr(s) == [t |-> "str", v |-> s]
PyInt(n) == [t |-> "int", v |-> n]
PyBool(b) == [t |-> "bool", v |-> b]
Ref(o) == [t |-> "ref", v |-> o]
PyBytes(s) == [t |-> "bytes", v |-> s]

EmptyDict == [k \in {} |-> NoneV]
Put(d, k, x) == [y \in (DOMAIN d) \cup {k} |-> IF y = k THEN x ELSE d[y]]
Update(d, e) == [y \in (DOMAIN d) \cup (DOMAIN e) |-> IF y \in DOMAIN e THEN e[y] ELSE d[y]]
Append1(log, s, ev) == [log EXCEPT ![s] = Append(@, ev)]

\* bool(x) of Python, for the value kinds of the model
Truthy(x, h) ==
    CASE x.t = "None" -> FALSE
      [] x.t = "str" -> x.v # <<>>
      [] x.t = "bytes" -> x.v # <<>>
      [] x.t = "int" -> x.v # 0
      [] x.t = "bool" -> x.v
      [] x.t = "ref" -> DOMAIN h[x.v] # {}

\* the result of a call: a value, or an exception carrying its message
Ok(x) == [raised |-> FALSE, val |-> x]
Raise(cls, m) == [raised |-> TRUE, cls |-> cls, val |-> PyStr(m)]

\* "%d" % n, as a sequence of digit characters
RECURSIVE Dec(_)
Dec(n) ==
    IF n < 10 THEN <<CASE n = 0 -> "0" [] n = 1 -> "1" [] n = 2 -> "2" [] n = 3 -> "3"
                       [] n = 4 -> "4" [] n = 5 -> "5" [] n = 6 -> "6" [] n = 7 -> "7"
                       [] n = 8 -> "8" [] n = 9 -> "9">>
    ELSE Dec(n \div 10) \o Dec(n % 10)

\* ------------------------------------------------------------------------
\* class EncodingType
FORMS == PyStr(<<"application/x-www-form-urlencoded">>)
JSON == PyStr(<<"application/json">>)

\* Senderable._default_timeout
_default_timeout == 5

\* sys.version > '3'
PY3 == TRUE

\* module function _value_in
_value_in(key, required, dk, kw) ==
    IF key \in DOMAIN kw THEN Ok(kw[key])
    ELSE IF key \in DOMAIN dk THEN Ok(dk[key])
    ELSE IF required THEN Raise("TypeError", <<"Sender function needs a ", key, " argument">>)
    ELSE Ok(NoneV)

\* Senderable.get_url
get_url(s) == _value_in("url", TRUE, dkwargs, kwargs[s])

\* Senderable.get_custom_headers
get_custom_headers(s) == _value_in("custom_headers", FALSE, dkwargs, kwargs[s])

\* Senderable.get_signing_secret
get_signing_secret(s) == _value_in("signing_secret", FALSE, dkwargs, kwargs[s])

\* Senderable.get_encoding without the check of the value
get_encoding_Unchecked(s) == _value_in("encoding", TRUE, dkwargs, kwargs[s])

\* Senderable.get_encoding
get_encoding(s) ==
    LET r == _value_in("encoding", TRUE, dkwargs, kwargs[s]) IN
    IF r.raised THEN r
    ELSE IF ~Truthy(r.val, heap) \/ ~(r.val = JSON \/ r.val = FORMS)
         THEN Raise("TypeError", <<"Invalid choice for 'encoding'. Valid selections are '",
                      FORMS.v[1], "' or '", JSON.v[1], "'">>)
         ELSE r

\* Senderable.get_timeout
get_timeout(s) ==
    LET r == _value_in("timeout", FALSE, dkwargs, kwargs[s]) IN
    IF Truthy(r.val, heap) THEN r ELSE Ok(PyInt(_default_timeout))

\* cached_property: the value of property name given the result r of its getter
Cached(c, name, r) == IF name \in DOMAIN c THEN Ok(c[name]) ELSE r

\* a cached_property that never keeps the value it computed
CacheAfter_Never(c, name, r) == c

\* cached_property: the cache after an access of property name
CacheAfter(c, name, r) ==
    IF name \in DOMAIN c \/ r.raised THEN c ELSE Put(c, name, r.val)

\* ------------------------------------------------------------------------
\* Serialization

\* the order in which the keys of a mapping are serialized
KeyOrder == <<"x", "hash", "success", "attempt", "status_code", "response",
              "error", "post_attributes", "payload">>

\* json text of one value
JsonVal(x) ==
    CASE x.t = "None" -> <<"null">>
      [] x.t = "str" -> <<"\"">> \o x.v \o <<"\"">>
      [] x.t = "int" -> Dec(x.v)
      [] x.t = "bool" -> IF x.v THEN <<"true">> ELSE <<"false">>

\* str(x), as urlencode applies it to a value
StrVal(x) ==
    CASE x.t = "None" -> <<"None">>
      [] x.t = "str" -> x.v
      [] x.t = "int" -> Dec(x.v)
      [] x.t = "bool" -> IF x.v THEN <<"True">> ELSE <<"False">>

RECURSIVE JsonItems(_, _, _)
JsonItems(d, n, first) ==
    IF n > Len(KeyOrder) THEN <<>>
    ELSE IF KeyOrder[n] \notin DOMAIN d THEN JsonItems(d, n + 1, first)
    ELSE (IF first THEN <<>> ELSE <<", ">>)
         \o <<"\"", KeyOrder[n], "\"", ": ">> \o JsonVal(d[KeyOrder[n]])
         \o JsonItems(d, n + 1, FALSE)

\* json.dumps(d, cls=StandardJSONEncoder) for a mapping d
json_dumps(d) == <<"{">> \o JsonItems(d, 1, TRUE) \o <<"}">>

RECURSIVE FormItems(_, _, _)
FormItems(d, n, first) ==
    IF n > Len(KeyOrder) THEN <<>>
    ELSE IF KeyOrder[n] \notin DOMAIN d \/ d[KeyOrder[n]].t = "None"
         THEN FormItems(d, n + 1, first)
    ELSE (IF first THEN <<>> ELSE <<"&">>)
         \o <<KeyOrder[n], "=">> \o StrVal(d[KeyOrder[n]])
         \o FormItems(d, n + 1, FALSE)

\* requests.PreparedRequest()._encode_params(d) for a mapping d
_encode_params(d) == FormItems(d, 1, TRUE)

\* isinstance(x, string_types)
IsString(x) == x.t = "str"

\* SHA256.new(data).hexdigest(): the digest of a byte string, kept symbolic
SHA256_hexdigest(data) == <<"hex(SHA256(">> \o data \o <<"))">>

\* Senderable.create_signature
create_signature(body, secret, h) ==
    LET secretB == IF secret.t = "bytes" THEN secret ELSE PyBytes(secret.v)
        text == IF ~IsString(body) THEN PyStr(_encode_params(h[body.v])) ELSE body
        bodyB == IF text.t = "bytes" THEN text ELSE PyBytes(text.v)
    IN  PyStr(<<"sha256=">> \o SHA256_hexdigest(secretB.v \o bodyB.v))

\* Senderable.jsonify_payload, for the cached payload p
jsonify_payload(p, h) ==
    IF IsString(p) THEN p ELSE PyStr(json_dumps(h[p.v]))

\* Senderable.format_payload, for the encoding result enc and cached payload p
format_payload(enc, p, h) ==
    IF enc.val = JSON THEN jsonify_payload(p, h) ELSE p

\* ------------------------------------------------------------------------
\* Inputs: what callers construct a Senderable with, and what the transport
\* can answer

DQ == "\""
SQ == "'"
BAD == "\\xff"          \* a byte that is not valid UTF-8

URL_KW == PyStr(<<"http://kw">>)
URL_DK == PyStr(<<"http://dk">>)
K1 == PyStr(<<"key1">>)
K2 == PyStr(<<"key2">>)
TIMEOUT_KW == PyInt(3)
TIMEOUT_DK == PyInt(7)
HASH == PyStr(<<"abc123">>)

DK_HEADERS == <<"dk_headers", 0>>
KW_HEADERS(s) == <<"kw_headers", s>>
PAYLOAD(s) == <<"payload", s>>
HEADERS(s) == <<"headers", s>>
POST_ATTRIBUTES(s) == <<"post_attributes", s>>

Dict(d) == [t |-> "dict", v |-> d]
One(k, x) == Put(EmptyDict, k, x)
Opt(k, xs) == {EmptyDict} \cup {One(k, x) : x \in xs}
Cross(A, B) == {Update(a, b) : a \in A, b \in B}

P_x == One("x", PyInt(1))
P_hash == Put(P_x, "hash", PyStr(<<"h0">>))
P_meta == [k \in {"success", "attempt", "status_code", "response", "error", "post_attributes"} |->
              CASE k = "success" -> PyBool(FALSE)
                [] k = "attempt" -> PyInt(0)
                [] k = "status_code" -> PyInt(0)
                [] k = "response" -> PyStr(<<"mine">>)
                [] k = "error" -> PyStr(<<"mine">>)
                [] k = "post_attributes" -> PyStr(<<"mine">>)]
Payloads == {PyStr(<<"raw">>), Dict(P_x), Dict(P_hash), Dict(P_meta)}
Hashes == {NoneV, PyStr(<<>>), HASH}

Schedules == UNION {[1..n -> 0..MaxWait] : n \in 1..MaxLen}
ShortSchedules == {sch \in Schedules : Len(sch) = 2}

\* transport outcomes: an exception with its message, or a response
Fails(m) == [kind |-> "raise", msg |-> m]
Responds(code, body) == [kind |-> "response", status_code |-> code, body |-> body]
Messages == {<<>>, <<"refused ", DQ, "h", DQ>>}
Responses == {Responds(200, <<"OK">>), Responds(299, <<"OK">>), Responds(300, <<"moved">>),
              Responds(500, <<"err">>), Responds(200, <<BAD>>)}
Outcomes == {Fails(m) : m \in Messages} \cup Responses
FewOutcomes == {Fails(<<"refused ", DQ, "h", DQ>>), Responds(200, <<"OK">>), Responds(500, <<"err">>)}

HDR_DK == One("X-A", PyStr(<<"1">>))
HDR_KW == One("Content-Type", PyStr(<<"text/xml">>))

Solo(x, off) == [s \in Senders |-> IF s = 1 THEN x ELSE off]

Scenario(dk, kw, hv, sch, w, h, rem, act) ==
    [dkwargs |-> dk, kwargs |-> kw, hash_value |-> hv, attempts |-> sch,
     wrapped |-> w, heap |-> h, remote |-> rem, active |-> act]

SoloScenario(dk, kw, hv, sch, w, h, rem) ==
    Scenario(dk, Solo(kw, EmptyDict), Solo(hv, NoneV), Solo(sch, <<0>>),
             Solo(w, PyStr(<<>>)), h, rem, {1})

\* one send, every schedule, payload, hash value and transport outcome
RetryInputs ==
    {SoloScenario(dk, EmptyDict, hv, sch, w, EmptyDict, Outcomes) :
        dk \in Cross(Cross(Opt("url", {URL_DK}), {One("encoding", JSON), One("encoding", FORMS)}),
                     Opt("signing_secret", {K2})),
        hv \in Hashes, sch \in Schedules, w \in Payloads}

\* one send, the two sources of url and encoding
LookupInputs ==
    {SoloScenario(dk, kw, HASH, sch, Dict(P_x), EmptyDict, FewOutcomes) :
        dk \in Cross(Opt("url", {URL_DK}), Opt("encoding", {JSON, FORMS, PyStr(<<"text/plain">>)})),
        kw \in Cross(Opt("url", {URL_KW}),
                     Opt("encoding", {JSON, FORMS, PyStr(<<"text/plain">>), PyStr(<<>>)})),
        sch \in ShortSchedules}

\* one send, the two sources of timeout and signing_secret
OptionInputs ==
    {SoloScenario(Update(dk, Update(One("url", URL_DK), One("encoding", enc))), kw, HASH, sch,
                  Dict(P_x), EmptyDict, FewOutcomes) :
        dk \in Cross(Opt("timeout", {TIMEOUT_DK}), Opt("signing_secret", {K2})),
        kw \in Cross(Opt("timeout", {PyInt(0), TIMEOUT_KW}),
                     Opt("signing_secret", {PyStr(<<>>), K1})),
        enc \in {JSON, FORMS}, sch \in ShortSchedules}

\* one send, custom_headers mappings owned by the caller
HeaderInputs ==
    {SoloScenario(Update(dk, Update(One("url", URL_DK), One("encoding", enc))), kw, HASH, sch,
                  Dict(P_x),
                  [o \in {DK_HEADERS, KW_HEADERS(1)} |-> IF o = DK_HEADERS THEN dh ELSE HDR_KW],
                  FewOutcomes) :
        dk \in Opt("custom_headers", {Ref(DK_HEADERS)}),
        dh \in {HDR_DK, EmptyDict},
        kw \in Cross(Opt("custom_headers", {Ref(KW_HEADERS(1))}), Opt("signing_secret", {K1})),
        enc \in {JSON, FORMS}, sch \in ShortSchedules}

\* two sends that share the default-config mapping and its custom_headers
SharedInputs ==
    {Scenario([k \in {"url", "encoding", "custom_headers"} |->
                  CASE k = "url" -> URL_DK [] k = "encoding" -> JSON
                    [] k = "custom_headers" -> Ref(DK_HEADERS)],
              kw, [s \in Senders |-> HASH], [s \in Senders |-> <<0, 0, 0>>],
              [s \in Senders |-> Dict(P_x)], [o \in {DK_HEADERS} |-> HDR_DK],
              {Responds(200, <<"OK">>), Responds(500, <<"err">>)}, Senders) :
        kw \in [Senders -> Cross(Opt("encoding", {FORMS}), Opt("signing_secret", {K1}))]}

Inputs == RetryInputs \cup LookupInputs \cup OptionInputs \cup HeaderInputs \cup SharedInputs

\* ------------------------------------------------------------------------
\* Senderable.__init__
Init ==
    \E in \in Inputs :
        /\ dkwargs = in.dkwargs
        /\ kwargs = in.kwargs
        /\ hash_value = in.hash_value
        /\ attempts = in.attempts
        /\ wrapped = in.wrapped
        /\ heap = in.heap
        /\ heap0 = in.heap
        /\ remote = in.remote
        /\ pc = [s \in Senders |-> IF s \in in.active THEN "start" ELSE "off"]
        /\ cache = [s \in Senders |-> EmptyDict]
        /\ attempt = [s \in Senders |-> 0]
        /\ error = [s \in Senders |-> NoneV]
        /\ response = [s \in Senders |-> NoneV]
        /\ response_content = [s \in Senders |-> NoneV]
        /\ payload = [s \in Senders |-> NoneV]
        /\ sending_metadata = [s \in Senders |-> EmptyDict]
        /\ idx = [s \in Senders |-> 0]
        /\ wait = [s \in Senders |-> 0]
        /\ result = [s \in Senders |-> [kind |-> "none", val |-> NoneV]]
        /\ events = [s \in Senders |-> <<>>]

\* ------------------------------------------------------------------------
\* _send, lines 117-131: the request attributes

Deref(x, h) == IF x.t = "ref" THEN Dict(h[x.v]) ELSE x

\* Senderable.get_payload: the wrapped function is called; a mapping it
\* returns is a new dict object
get_payload(s) == IF wrapped[s].t = "dict" THEN Ref(PAYLOAD(s)) ELSE wrapped[s]

\* the calls of the wrapped function that one access of self.payload makes
PayloadCalls(c) == IF "payload" \in DOMAIN c THEN <<>> ELSE <<[e |-> "wrapped"]>>

\* lines 117-119
Begin(s) ==
    /\ pc[s] = "start"
    /\ LET p == Cached(cache[s], "payload", Ok(get_payload(s)))
           c1 == CacheAfter(cache[s], "payload", p)
           h1 == IF p.val.t = "ref" /\ "payload" \notin DOMAIN cache[s]
                 THEN Put(heap, PAYLOAD(s), wrapped[s].v) ELSE heap
           t == Cached(c1, "timeout", get_timeout(s))
           c2 == CacheAfter(c1, "timeout", t)
       IN  /\ payload' = [payload EXCEPT ![s] = p.val]
           /\ sending_metadata' = [sending_metadata EXCEPT ![s] = One("success", PyBool(FALSE))]
           /\ heap' = Put(h1, POST_ATTRIBUTES(s), One("timeout", t.val))
           /\ cache' = [cache EXCEPT ![s] = c2]
           /\ events' = [events EXCEPT ![s] = @ \o PayloadCalls(cache[s])]
    /\ pc' = [pc EXCEPT ![s] = "headers"]
    /\ UNCHANGED <<inputs, attempt, error, response, response_content, idx, wait, result>>

\* lines 121-124
Headers(s) ==
    /\ pc[s] = "headers"
    /\ LET ch == Cached(cache[s], "custom_headers", get_custom_headers(s))
           pa == heap[POST_ATTRIBUTES(s)]
           pa1 == IF Truthy(ch.val, heap) THEN Put(pa, "headers", ch.val) ELSE pa
           fresh == "headers" \notin DOMAIN pa1 \/ ~Truthy(pa1["headers"], heap)
           pa2 == IF fresh THEN Put(pa1, "headers", Ref(HEADERS(s))) ELSE pa1
           h1 == IF fresh THEN Put(heap, HEADERS(s), EmptyDict) ELSE heap
       IN  /\ heap' = [h1 EXCEPT ![POST_ATTRIBUTES(s)] = pa2]
           /\ cache' = [cache EXCEPT ![s] = CacheAfter(@, "custom_headers", ch)]
    /\ pc' = [pc EXCEPT ![s] = "content_type"]
    /\ UNCHANGED <<inputs, attempt, error, response, response_content, payload,
                   sending_metadata, idx, wait, result, events>>

\* an exception leaves _send
Propagate(s, ex) ==
    /\ result' = [result EXCEPT ![s] = [kind |-> "raised", val |-> ex.val]]
    /\ pc' = [pc EXCEPT ![s] = "done"]

\* line 125
ContentType(s) ==
    /\ pc[s] = "content_type"
    /\ LET enc == Cached(cache[s], "encoding", get_encoding(s))
           hd == heap[POST_ATTRIBUTES(s)]["headers"].v
       IN  /\ cache' = [cache EXCEPT ![s] = CacheAfter(@, "encoding", enc)]
           /\ IF enc.raised
              THEN Propagate(s, enc) /\ UNCHANGED heap
              ELSE /\ heap' = [heap EXCEPT ![hd] = Put(@, "Content-Type", enc.val)]
                   /\ pc' = [pc EXCEPT ![s] = "data"]
                   /\ UNCHANGED result
    /\ UNCHANGED <<inputs, attempt, error, response, response_content, payload,
                   sending_metadata, idx, wait, events>>

\* line 127
FormatData(s) ==
    /\ pc[s] = "data"
    /\ LET enc == get_encoding(s)
           p == Cached(cache[s], "payload", Ok(get_payload(s)))
       IN  IF enc.raised
           THEN Propagate(s, enc) /\ UNCHANGED <<heap, events>>
           ELSE /\ heap' = [heap EXCEPT ![POST_ATTRIBUTES(s)] =
                                Put(@, "data", format_payload(enc, p.val, heap))]
                /\ events' = [events EXCEPT ![s] = @ \o PayloadCalls(cache[s])]
                /\ pc' = [pc EXCEPT ![s] = "sign"]
                /\ UNCHANGED result
    /\ UNCHANGED <<inputs, cache, attempt, error, response, response_content, payload,
                   sending_metadata, idx, wait>>

\* lines 129-131
Sign(s) ==
    /\ pc[s] = "sign"
    /\ LET sec == Cached(cache[s], "signing_secret", get_signing_secret(s))
           pa == heap[POST_ATTRIBUTES(s)]
           hd == pa["headers"].v
       IN  /\ cache' = [cache EXCEPT ![s] = CacheAfter(@, "signing_secret", sec)]
           /\ heap' = IF Truthy(sec.val, heap)
                      THEN [heap EXCEPT ![hd] =
                               Put(@, "x-hub-signature", create_signature(pa["data"], sec.val, heap))]
                      ELSE heap
    /\ pc' = [pc EXCEPT ![s] = "loop"]
    /\ UNCHANGED <<inputs, attempt, error, response, response_content, payload,
                   sending_metadata, idx, wait, result, events>>

\* ------------------------------------------------------------------------
\* _send, lines 133-183: the attempt loop

\* a loop over range(len(self.attempts))
LoopRange_Full(sch) == Len(sch)

\* number of iterations of "for i, wait in enumerate(range(len(self.attempts) - 1))"
LoopRange(sch) == Len(sch) - 1

\* line 151: anything with a 200 status code is a success
IsSuccess(code) == code >= 200 /\ code < 300

\* line 164 catching the transport's exceptions only
Catches_TransportOnly(ex) == ex.cls = "ConnectionError"

\* line 164: except Exception
Catches(ex) == TRUE

\* line 177 comparing with the schedule's length
IsLastAttempt_OffByOne(a, sch) == a = Len(sch)

\* line 177: if last attempt
IsLastAttempt(a, sch) == a = Len(sch) - 1

\* str(ex).replace('"', "'")
ReplaceQuotes(m) == [i \in DOMAIN m |-> IF m[i] = DQ THEN SQ ELSE m[i]]

\* line 166: the response recorded for an attempt that raised
FailureBody(err) ==
    PyStr(<<"{\"status_code\": 500, \"status\":\"failure\",\"error\":\"">> \o err \o <<"\"}">>)

\* line 161
StatusError(r) ==
    PyStr(<<"Status code (">> \o Dec(r.status_code) \o <<"). Message: ">> \o r.text.v)

\* the response object requests.post returns for a transport outcome
ResponseOf(out) ==
    [status_code |-> out.status_code,
     content |-> PyBytes(out.body),
     text |-> PyStr([i \in DOMAIN out.body |-> IF out.body[i] = BAD THEN "\\ufffd" ELSE out.body[i]])]

\* lines 142-146: self.response.content.decode('utf-8') on Python 3
DecodeContent(r) ==
    IF ~PY3 THEN Ok(r.content)
    ELSE IF \E i \in DOMAIN r.content.v : r.content.v[i] = BAD
         THEN Raise("UnicodeDecodeError",
                    <<"'utf-8' codec can't decode byte 0xff in position 0: invalid start byte">>)
         ELSE Ok(PyStr(r.content.v))

Notify(level, fmt, args) == [e |-> "notify", level |-> level, fmt |-> fmt, args |-> args]

\* lines 133-136, and the end of the loop
LoopHead(s) ==
    /\ pc[s] = "loop"
    /\ IF idx[s] < LoopRange(attempts[s])
       THEN /\ wait' = [wait EXCEPT ![s] = idx[s]]
            /\ idx' = [idx EXCEPT ![s] = @ + 1]
            /\ attempt' = [attempt EXCEPT ![s] = idx[s] + 1]
            /\ sending_metadata' = [sending_metadata EXCEPT ![s] = Put(@, "attempt", PyInt(idx[s] + 1))]
            /\ events' = Append1(events, s, [e |-> "attempt", n |-> idx[s] + 1])
            /\ pc' = [pc EXCEPT ![s] = "post"]
       ELSE /\ pc' = [pc EXCEPT ![s] = "finish"]
            /\ UNCHANGED <<wait, idx, attempt, sending_metadata, events>>
    /\ UNCHANGED <<inputs, heap, cache, error, response, response_content, payload, result>>

\* lines 138-167: one attempt
Post(s) ==
    /\ pc[s] = "post"
    /\ \E out \in remote :
       LET u == Cached(cache[s], "url", get_url(s))
           pa == heap[POST_ATTRIBUTES(s)]
           call == [e |-> "post", n |-> attempt[s], url |-> u.val, timeout |-> pa["timeout"],
                    headers |-> heap[pa["headers"].v], data |-> Deref(pa["data"], heap),
                    out |-> out]
           r == ResponseOf(out)
           dec == DecodeContent(r)
           posted == ~u.raised
           answered == posted /\ out.kind = "response"
           ex == IF u.raised THEN u
                 ELSE IF out.kind = "raise" THEN Raise("ConnectionError", out.msg)
                 ELSE dec
           err_formatted == ReplaceQuotes(ex.val.v)
       IN  /\ cache' = [cache EXCEPT ![s] = CacheAfter(@, "url", u)]
           /\ response' = [response EXCEPT ![s] = IF answered THEN r ELSE @]
           /\ IF ex.raised
              THEN /\ events' = IF posted THEN Append1(events, s, call) ELSE events
                   /\ UNCHANGED response_content
                   /\ IF Catches(ex)
                      THEN /\ sending_metadata' = [sending_metadata EXCEPT ![s] =
                                  Put(@, "response", FailureBody(err_formatted))]
                           /\ error' = [error EXCEPT ![s] = PyStr(err_formatted)]
                           /\ pc' = [pc EXCEPT ![s] = "after_fail"]
                           /\ UNCHANGED result
                      ELSE /\ Propagate(s, ex)
                           /\ UNCHANGED <<sending_metadata, error>>
              ELSE /\ response_content' = [response_content EXCEPT ![s] = dec.val]
                   /\ UNCHANGED result
                   /\ IF IsSuccess(r.status_code)
                      THEN /\ events' = [events EXCEPT ![s] = @ \o
                                  <<call, Notify("info", "Attempt {}: Successfully sent webhook {}",
                                                 <<PyInt(attempt[s]), hash_value[s]>>)>>]
                           /\ sending_metadata' = [sending_metadata EXCEPT ![s] =
                                  Put(Put(Put(@, "status_code", PyInt(r.status_code)),
                                          "response", dec.val), "success", PyBool(TRUE))]
                           /\ pc' = [pc EXCEPT ![s] = "finish"]
                           /\ UNCHANGED error
                      ELSE /\ events' = Append1(events, s, call)
                           /\ sending_metadata' = [sending_metadata EXCEPT ![s] =
                                  Put(@, "status_code", PyInt(r.status_code))]
                           /\ error' = [error EXCEPT ![s] = StatusError(r)]
                           /\ pc' = [pc EXCEPT ![s] = "after_fail"]
    /\ UNCHANGED <<inputs, heap, attempt, payload, idx, wait>>

\* lines 169-183: after a failed attempt
AfterFail(s) ==
    /\ pc[s] = "after_fail"
    /\ LET p == Cached(cache[s], "payload", Ok(get_payload(s)))
           body == Deref(p.val, heap)
       IN  events' = [events EXCEPT ![s] = @ \o PayloadCalls(cache[s]) \o
              <<Notify("info", "Attempt {}: Could not send webhook {}",
                       <<PyInt(attempt[s]), hash_value[s]>>),
                Notify("debug", "Webhook {}. Body: {}", <<hash_value[s], body>>),
                IF IsLastAttempt(attempt[s], attempts[s])
                THEN Notify("error", "Failed to send webhook {}. Body: {}", <<hash_value[s], body>>)
                ELSE [e |-> "sleep", d |-> wait[s]]>>]
    /\ pc' = [pc EXCEPT ![s] = "loop"]
    /\ UNCHANGED <<inputs, heap, cache, attempt, error, response, response_content, payload,
                   sending_metadata, idx, wait, result>>

\* ------------------------------------------------------------------------
\* _send, lines 185-196: the outcome

\* line 185 with the recorded error dropped
FinalError_Dropped(success, err, h) == NoneV

\* line 185
FinalError(success, err, h) == IF Truthy(success, h) \/ ~Truthy(err, h) THEN NoneV ELSE err

\* line 192
HasHash(hv) == hv.t # "None" /\ Len(hv.v) > 0

Finish(s) ==
    /\ pc[s] = "finish"
    /\ LET sm == Put(Put(sending_metadata[s],
                         "error", FinalError(sending_metadata[s]["success"], error[s], heap)),
                     "post_attributes", Ref(POST_ATTRIBUTES(s)))
           p == payload[s]
           d == IF IsString(p) THEN One("payload", p) ELSE heap[p.v]
           dh == IF HasHash(hash_value[s]) THEN Put(d, "hash", hash_value[s]) ELSE d
       IN  /\ sending_metadata' = [sending_metadata EXCEPT ![s] = sm]
           /\ payload' = [payload EXCEPT ![s] = IF IsString(p) THEN Dict(dh) ELSE p]
           /\ heap' = IF IsString(p) THEN heap ELSE [heap EXCEPT ![p.v] = dh]
           /\ result' = [result EXCEPT ![s] = [kind |-> "returned", val |-> Dict(Update(sm, dh))]]
    /\ pc' = [pc EXCEPT ![s] = "done"]
    /\ UNCHANGED <<inputs, cache, attempt, error, response, response_content, idx, wait, events>>

\* ------------------------------------------------------------------------
\* the next step of the send of sender s
Step(s) ==
    \/ Begin(s)
    \/ Headers(s)
    \/ ContentType(s)
    \/ FormatData(s)
    \/ Sign(s)
    \/ LoopHead(s)
    \/ Post(s)
    \/ AfterFail(s)
    \/ Finish(s)

Next == \E s \in Senders : Step(s)

Spec == Init /\ [][Next]_vars

\* every call made by a running send returns (requests.post has a timeout,
\* sleep(wait) is finite), so a send that can take a step takes it
\* The hash value and the payload take no part in the control flow of _send:
\* the fair behaviours are explored for one hash value and one payload, with
\* every schedule, configuration and transport outcome.
FairInit ==
    /\ Init
    /\ \A s \in Senders : pc[s] # "off" => (hash_value[s] = HASH /\ wrapped[s] = Dict(P_x))

FairSpec == FairInit /\ [][Next]_vars /\ \A s \in Senders : WF_vars(Step(s))

\* ------------------------------------------------------------------------
\* Observations used by the properties

Calls(s, kind) == SelectSeq(events[s], LAMBDA ev : ev.e = kind)
Posts(s) == Calls(s, "post")
Sleeps(s) == Calls(s, "sleep")
Done(s) == pc[s] = "done"
Returned(s) == Done(s) /\ result[s].kind = "returned"
Raised(s) == Done(s) /\ result[s].kind = "raised"
Outcome(s) == result[s].val.v
N(s) == Len(attempts[s])

\* the transport answered with a status in [200,300)
Answered2xx(ev) ==
    ev.e = "post" /\ ev.out.kind = "response" /\ ev.out.status_code \in 200..299

\* the attempt behind a POST failed as the transport reports it: it raised,
\* or it answered with a status outside [200,300)
TransportFailure(ev) ==
    ev.e = "post" /\ (ev.out.kind = "raise" \/ ev.out.status_code \notin 200..299)

\* the setting as the two sources define it, keyword arguments first
Setting(s, key) ==
    IF key \in DOMAIN kwargs[s] THEN kwargs[s][key]
    ELSE IF key \in DOMAIN dkwargs THEN dkwargs[key] ELSE NoneV
UrlAbsent(s) == "url" \notin DOMAIN kwargs[s] /\ "url" \notin DOMAIN dkwargs
EncodingValid(s) == Setting(s, "encoding") \in {JSON, FORMS}
ValidConfig(s) == ~UrlAbsent(s) /\ EncodingValid(s)

\* the payload mapping has no key that the outcome mapping also sets
MetadataKeys == {"success", "attempt", "status_code", "response", "error", "post_attributes"}
PayloadKeys(s) == IF wrapped[s].t = "dict" THEN DOMAIN wrapped[s].v ELSE {"payload"}
Active == {s \in Senders : pc[s] # "off"}

\* ------------------------------------------------------------------------
\* Properties

\* C1: a send issues at most N-1 POSTs, and when the k-th attempt is the
\* first whose POST is answered with a status in [200,300), no POST or sleep
\* follows it and the outcome has attempt=k and success=true.  Stated for
\* payloads that carry no key named like an outcome field.
C1_StopsAtFirstSuccess ==
    \A s \in Active :
        /\ Len(Posts(s)) <= N(s) - 1
        /\ PayloadKeys(s) \cap MetadataKeys = {} =>
             \A i \in DOMAIN events[s] :
                 (/\ Answered2xx(events[s][i])
                  /\ \A j \in 1..(i - 1) : ~Answered2xx(events[s][j]))
                 => /\ \A j \in (i + 1)..Len(events[s]) : events[s][j].e \notin {"post", "sleep"}
                    /\ Done(s) => /\ Returned(s)
                                  /\ Outcome(s)["attempt"] = PyInt(events[s][i].n)
                                  /\ Outcome(s)["success"] = PyBool(TRUE)

\* the message the loop records for a failed attempt: for an exception its
\* text with double quotes replaced by single quotes, for a response outside
\* [200,300) the status line
RecordedMessage(ev) ==
    IF ev.out.kind = "raise"
    THEN PyStr([i \in DOMAIN ev.out.msg |-> IF ev.out.msg[i] = "\"" THEN "'" ELSE ev.out.msg[i]])
    ELSE PyStr(<<"Status code (">> \o Dec(ev.out.status_code) \o <<"). Message: ">> \o ev.out.body)

\* the error field that reports it: an empty message is reported as no error
ReportedError(ev) == IF RecordedMessage(ev).v = <<>> THEN NoneV ELSE RecordedMessage(ev)

AllAttemptsFailed(s) ==
    /\ Returned(s)
    /\ N(s) >= 2
    /\ Len(Posts(s)) = N(s) - 1
    /\ \A i \in DOMAIN Posts(s) : TransportFailure(Posts(s)[i])

LastPost(s) == Posts(s)[Len(Posts(s))]

C3_MissingUrlRaises ==
    \A s \in Active :
        (UrlAbsent(s) /\ N(s) >= 2) =>
            /\ Posts(s) = <<>>
            /\ Sleeps(s) = <<>>
            /\ Done(s) => (Raised(s) /\ attempt[s] = 0)

\* C4: when 'encoding' resolves to anything but the two accepted values
\* (absent included, and an invalid keyword value over a valid default),
\* send() raises to the caller and makes no POST and no sleep.
C4_InvalidEncodingRaises ==
    \A s \in Active :
        ~EncodingValid(s) =>
            /\ Posts(s) = <<>>
            /\ Sleeps(s) = <<>>
            /\ attempt[s] = 0
            /\ pc[s] \in {"start", "headers", "content_type", "done"}
            /\ Done(s) => Raised(s)

\* C4 witness: an invalid keyword value shadowed a valid default and send()
\* raised
C4_Witness ==
    \E s \in Active :
        /\ Raised(s)
        /\ "encoding" \in DOMAIN kwargs[s] /\ kwargs[s]["encoding"] \notin {JSON, FORMS}
        /\ "encoding" \in DOMAIN dkwargs /\ dkwargs["encoding"] \in {JSON, FORMS}

\* what the outcome's error field is after the attempt behind POST ev
FoldedError(ev) ==
    IF TransportFailure(ev) THEN ReportedError(ev)
    ELSE IF \E i \in DOMAIN ev.out.body : ev.out.body[i] = BAD
         THEN PyStr(<<"'utf-8' codec can't decode byte 0xff in position 0: invalid start byte">>)
         ELSE NoneV

\* C5: with url present and encoding valid, send() never raises whatever the
\* attempts do: it returns an outcome mapping whose success and error fields
\* (where the payload does not define them) tell how the last attempt ended.
C5_NeverRaises ==
    \A s \in Active :
        ValidConfig(s) =>
            /\ result[s].kind # "raised"
            /\ Done(s) =>
                 /\ Returned(s)
                 /\ {"success", "error"} \subseteq DOMAIN Outcome(s)
                 /\ "error" \notin PayloadKeys(s) =>
                      Outcome(s)["error"] = IF Posts(s) = <<>> THEN NoneV
                                            ELSE FoldedError(LastPost(s))
                 /\ "success" \notin PayloadKeys(s) =>
                      Outcome(s)["success"] =
                          PyBool(Posts(s) # <<>> /\ Answered2xx(LastPost(s))
                                 /\ \A i \in DOMAIN LastPost(s).out.body : LastPost(s).out.body[i] # BAD)

\* C5 witness: a returned outcome after an attempt that raised and an attempt
\* whose response could not be decoded
C5_Witness ==
    \E s \in Active :
        /\ Returned(s) /\ ValidConfig(s)
        /\ Len(Posts(s)) = 2
        /\ Posts(s)[1].out.kind = "raise"
        /\ Posts(s)[2].out.kind = "response" /\ BAD \in {Posts(s)[2].out.body[i] : i \in DOMAIN Posts(s)[2].out.body}
        /\ Outcome(s)["success"] = PyBool(FALSE)

\* C6: the sleep after a failed attempt lasts the schedule's wait value for
\* that attempt: with schedule [0,1,0] the sleep after attempt 1 lasts 1.
C6_SleepFromSchedule ==
    \A s \in Active :
        \A j \in DOMAIN Sleeps(s) : Sleeps(s)[j].d = attempts[s][j + 1]

\* attempts and sleeps of a send, in order
Rhythm(s) == SelectSeq(events[s], LAMBDA ev : ev.e \in {"attempt", "sleep"})

\* C7: attempts and sleeps alternate, starting with an attempt; a finished
\* send that made m >= 1 attempts slept m-1 times, so none after a success
\* and none after the last attempt failed.
C7_SleepsBetweenAttempts ==
    \A s \in Active :
        /\ \A i \in DOMAIN Rhythm(s) : (Rhythm(s)[i].e = "attempt") <=> (i % 2 = 1)
        /\ attempt[s] = Len(Calls(s, "attempt"))
        /\ attempt[s] = 0 => Sleeps(s) = <<>>
        /\ pc[s] \in {"finish", "done"} /\ attempt[s] >= 1 => Len(Sleeps(s)) = attempt[s] - 1

\* C7 witness: a finished send whose two attempts both failed slept once
C7_Witness ==
    \E s \in Active :
        /\ Returned(s) /\ N(s) = 3 /\ attempt[s] = 2
        /\ \A i \in DOMAIN Posts(s) : TransportFailure(Posts(s)[i])
        /\ Len(Posts(s)) = 2
        /\ Len(Sleeps(s)) = 1

\* C8: every returned outcome with success=false carries a non-empty error
\* string and an attempt number (payloads without outcome-field keys).
C8_FailureHasError ==
    \A s \in Active :
        (Returned(s) /\ PayloadKeys(s) \cap MetadataKeys = {} /\ Outcome(s)["success"] = PyBool(FALSE))
        => /\ "error" \in DOMAIN Outcome(s)
           /\ Outcome(s)["error"].t = "str" /\ Outcome(s)["error"].v # <<>>
           /\ "attempt" \in DOMAIN Outcome(s)

\* the request parameters of POST ev
Sent(ev) == [timeout |-> ev.timeout, headers |-> ev.headers, data |-> ev.data]

\* the post_attributes of the outcome, as the caller reads them
Reported(s) ==
    LET pa == heap[Outcome(s)["post_attributes"].v]
    IN  [timeout |-> pa["timeout"], headers |-> heap[pa["headers"].v], data |-> Deref(pa["data"], heap)]

\* C9: the outcome's post_attributes are the request parameters of the POSTs
\* of that send (one send at a time, payload without a post_attributes key).
C9_PostAttributesAsSent ==
    \A s \in Active :
        (Returned(s) /\ Active = {s} /\ "post_attributes" \notin PayloadKeys(s))
        => \A i \in DOMAIN Posts(s) : Sent(Posts(s)[i]) = Reported(s)

\* the headers a send's own settings and body determine
OwnHeaders(s, body) ==
    LET ch == Setting(s, "custom_headers")
        base == IF ch.t = "ref" THEN heap0[ch.v] ELSE EmptyDict
        sec == Setting(s, "signing_secret")
        text == IF body.t = "dict" THEN _encode_params(body.v) ELSE body.v
        typed == Put(base, "Content-Type", Setting(s, "encoding"))
    IN  IF sec.t = "str" /\ sec.v # <<>>
        THEN Put(typed, "x-hub-signature", PyStr(<<"sha256=">> \o SHA256_hexdigest(sec.v \o text)))
        ELSE typed

\* C10: the headers of every POST are determined by the send's own encoding,
\* secret, body and custom headers, whatever another send that shares the
\* default-config mapping does.
C10_HeadersOwn ==
    \A s \in Active :
        \A i \in DOMAIN Posts(s) : Posts(s)[i].headers = OwnHeaders(s, Posts(s)[i].data)

\* the dict objects the caller handed over: the custom_headers mappings that
\* the default-config mapping and the keyword arguments refer to
CallerObjects(s) ==
    {o \in DOMAIN heap0 :
        \/ ("custom_headers" \in DOMAIN dkwargs /\ dkwargs["custom_headers"] = Ref(o))
        \/ ("custom_headers" \in DOMAIN kwargs[s] /\ kwargs[s]["custom_headers"] = Ref(o))}

\* C11: after send() returns, the custom_headers mappings reachable from the
\* default-config mapping and the keyword arguments have the keys and values
\* they had before the call (one send at a time).
C11_InputsUnchanged ==
    \A s \in Active :
        (Returned(s) /\ Active = {s}) => \A o \in CallerObjects(s) : heap[o] = heap0[o]

\* the settings resolved from the keyword arguments and the default-config mapping
Settings == {"url", "custom_headers", "signing_secret", "encoding", "timeout"}

\* C12: a setting that the keyword arguments define resolves to the keyword
\* value, whatever the default-config mapping holds for it (a keyword timeout
\* of 0 included).
C12_KeywordWins ==
    \A s \in Active : \A key \in Settings :
        (key \in DOMAIN cache[s] /\ key \in DOMAIN kwargs[s] /\ key \in DOMAIN dkwargs)
            => cache[s][key] = kwargs[s][key]

\* C13: every key of the payload mapping the wrapped function returned is in
\* the outcome with the value the payload gave it, and a payload without a
\* 'hash' key sent with a non-empty hash value gives outcome.hash = hash value.
C13_PayloadKeysWin ==
    \A s \in Active :
        (Returned(s) /\ wrapped[s].t = "dict") =>
            /\ \A k \in DOMAIN wrapped[s].v :
                  k \in DOMAIN Outcome(s) /\ Outcome(s)[k] = wrapped[s].v[k]
            /\ ("hash" \notin DOMAIN wrapped[s].v /\ HasHash(hash_value[s]))
                  => ("hash" \in DOMAIN Outcome(s) /\ Outcome(s)["hash"] = hash_value[s])

\* the standard HMAC construction over the hash, as the digest of its text:
\* H((key xor opad) || H((key xor ipad) || message))
HMAC_SHA256_hexdigest(key, message) ==
    <<"hex(SHA256(", "opad^">> \o key \o <<"SHA256(", "ipad^">> \o key \o message \o <<")", "))">>

\* the signature that HMAC-SHA256 keyed with the secret gives for a body
HmacSignature(data, secret) ==
    LET text == IF data.t = "dict" THEN _encode_params(data.v) ELSE data.v
    IN  PyStr(<<"sha256=">> \o HMAC_SHA256_hexdigest(secret.v, text))

\* C14: the x-hub-signature header of every POST is 'sha256=' followed by the
\* hex HMAC-SHA256, keyed with the signing secret, of the body that is sent.
C14_SignatureIsHmac ==
    \A s \in Active : \A i \in DOMAIN Posts(s) :
        "x-hub-signature" \in DOMAIN Posts(s)[i].headers =>
            \E secret \in {K1, K2} :
                Posts(s)[i].headers["x-hub-signature"] = HmacSignature(Posts(s)[i].data, secret)

\* the request body that the value the wrapped function returned gives
BodyOf(s) ==
    IF wrapped[s].t # "dict" THEN wrapped[s]
    ELSE IF Setting(s, "encoding") = JSON THEN PyStr(json_dumps(wrapped[s].v))
    ELSE wrapped[s]

\* the log messages that print the payload
BodyMessages(s) ==
    SelectSeq(events[s], LAMBDA ev : ev.e = "notify" /\ ev.level \in {"debug", "error"})

\* C15: once a send has read its payload, the wrapped function has been called
\* exactly once, however many attempts follow; the value it returned is the
\* body of every POST (serialized per the encoding), the body printed by every
\* log message, and the mapping merged into the outcome (whose 'hash' key is
\* set from a non-empty hash value).
C15_WrappedCalledOnce ==
    \A s \in Active :
        /\ Len(Calls(s, "wrapped")) = (IF pc[s] = "start" THEN 0 ELSE 1)
        /\ \A i \in DOMAIN Posts(s) : Posts(s)[i].data = BodyOf(s)
        /\ \A i \in DOMAIN BodyMessages(s) : BodyMessages(s)[i].args[2] = wrapped[s]
        /\ Returned(s) =>
              \A k \in PayloadKeys(s) :
                  /\ k \in DOMAIN Outcome(s)
                  /\ (k # "hash" \/ ~HasHash(hash_value[s])) =>
                        Outcome(s)[k] = (IF wrapped[s].t = "dict" THEN wrapped[s].v[k] ELSE wrapped[s])

\* a send that failed twice and returned, having printed its mapping payload
C15_Witness ==
    \E s \in Active :
        /\ Returned(s) /\ wrapped[s].t = "dict"
        /\ Len(Posts(s)) >= 2 /\ Len(BodyMessages(s)) >= 3
        /\ Len(Calls(s, "wrapped")) = 1

\* what one POST sent
Request(ev) == [url |-> ev.url, timeout |-> ev.timeout, headers |-> ev.headers, data |-> ev.data]

\* C16: every POST of one send carries the same url, timeout, headers and
\* body; its Content-Type header is the resolved encoding, and its
\* x-hub-signature header is there exactly when the signing secret is
\* non-empty.
C16_SameRequestEveryAttempt ==
    \A s \in Active : \A i \in DOMAIN Posts(s) :
        /\ Request(Posts(s)[i]) = Request(Posts(s)[1])
        /\ Posts(s)[i].headers["Content-Type"] = Setting(s, "encoding")
        /\ ("x-hub-signature" \in DOMAIN Posts(s)[i].headers)
              <=> Truthy(Setting(s, "signing_secret"), heap)

\* the notifications of one level, and the positions in the log of the events of a kind
Notified(s, level) == SelectSeq(events[s], LAMBDA ev : ev.e = "notify" /\ ev.level = level)
ErrorsAt(s) == {i \in DOMAIN events[s] : events[s][i].e = "notify" /\ events[s][i].level = "error"}
SuccessAt(s) ==
    {i \in DOMAIN events[s] :
        /\ events[s][i].e = "notify" /\ events[s][i].level = "info"
        /\ events[s][i].fmt = "Attempt {}: Successfully sent webhook {}"}

\* the final attempt, index len(schedule)-1, was made and failed: it was not
\* answered with a status in [200,300)
FinalAttemptFailed(s) ==
    /\ N(s) >= 2
    /\ \E i \in DOMAIN events[s] : events[s][i].e = "attempt" /\ events[s][i].n = N(s) - 1
    /\ ~(Posts(s) # <<>> /\ LastPost(s).n = N(s) - 1 /\ Answered2xx(LastPost(s)))

\* the send ended in success: its last POST was answered with a status in [200,300)
EndedInSuccess(s) == Posts(s) # <<>> /\ Answered2xx(LastPost(s))

\* C17: a finished send has emitted the error-level notification exactly once
\* if its final attempt failed and never otherwise; the notification comes
\* after that attempt, no POST or sleep follows it, and the outcome then has
\* success = false.  A finished send whose last POST was answered in [200,300) has
\* emitted the info-level success notification exactly once, right after that
\* POST and with its attempt number, and no error-level notification.
C17_ErrorNotifiedOnce ==
    \A s \in Active :
        /\ Cardinality(ErrorsAt(s)) <= 1
        /\ Done(s) => (ErrorsAt(s) # {} <=> FinalAttemptFailed(s))
        /\ \A i \in ErrorsAt(s) :
              /\ \E j \in 1..(i - 1) : events[s][j].e = "attempt" /\ events[s][j].n = N(s) - 1
              /\ \A j \in (i + 1)..Len(events[s]) : events[s][j].e \notin {"post", "sleep", "attempt"}
        /\ (Returned(s) /\ ErrorsAt(s) # {} /\ "success" \notin PayloadKeys(s))
              => Outcome(s)["success"] = PyBool(FALSE)
        /\ (Done(s) /\ EndedInSuccess(s)) =>
              /\ ErrorsAt(s) = {}
              /\ Cardinality(SuccessAt(s)) = 1
              /\ \A i \in SuccessAt(s) :
                    /\ i > 1 /\ events[s][i - 1] = LastPost(s)
                    /\ events[s][i].args[1] = PyInt(LastPost(s).n)
        /\ (Done(s) /\ ~EndedInSuccess(s)) => SuccessAt(s) = {}

\* the largest attempt number a schedule allows
MaxAttempt(s) == IF N(s) >= 1 THEN N(s) - 1 ELSE 0

\* C18: every send that starts eventually completes (it returns an outcome or
\* raises); its attempt counter goes up by exactly 1 at each loop iteration,
\* starting from 1, and never exceeds len(schedule)-1.
C18_Terminates ==
    /\ [](\A s \in Senders : attempt[s] <= MaxAttempt(s))
    /\ [][\A s \in Senders :
            attempt'[s] # attempt[s] => (pc[s] = "loop" /\ attempt'[s] = attempt[s] + 1)]_vars
    /\ [][\A s \in Senders :
            (pc[s] = "loop" /\ pc'[s] = "post") => attempt'[s] = attempt[s] + 1]_vars
    /\ \A s \in Senders : (pc[s] = "start") ~> Done(s)

\* a send that used up the longest schedule and completed
C18_Witness ==
    \E s \in Active :
        Done(s) /\ N(s) = MaxLen /\ attempt[s] = N(s) - 1 /\ Len(Sleeps(s)) = N(s) - 2

\* the response body that the attempt behind a POST gives: the decoded content
\* of its answer, or the failure body built from the exception it raised
BodyOfAttempt(ev) ==
    IF ev.out.kind = "raise" THEN FailureBody(ReplaceQuotes(ev.out.msg))
    ELSE LET dec == DecodeContent(ResponseOf(ev.out))
         IN  IF dec.raised THEN FailureBody(ReplaceQuotes(dec.val.v)) ELSE dec.val

\* C19: in a returned outcome, a response field is the body of the attempt
\* that concluded the loop, the one that status_code and error describe
\* (payloads without keys of the outcome's own, url configured).
C19_FieldsOfOneAttempt ==
    \A s \in Active :
        (/\ Returned(s) /\ Posts(s) # <<>>
         /\ PayloadKeys(s) \cap MetadataKeys = {}
         /\ "response" \in DOMAIN Outcome(s))
            => Outcome(s)["response"] = BodyOfAttempt(LastPost(s))

====
